---- MODULE Spec2Model ----
(***************************************************************************)
(* Model of the void_gpu command-list indexing scheme and of the command   *)
(* buffer ledger of the Gpu facade (omkar-mohanty/shatter).                *)
(*                                                                         *)
(*   CommandListIndex::new   void_gpu/src/api/mod.rs          54-58        *)
(*   Gpu (ledger)            void_gpu/src/api/wgpu_api/api.rs 182-227      *)
(*   RenderContext::render   void_gpu/src/api/wgpu_api/api.rs 113-149      *)
(*                                                                         *)
(* CommandListIndex wraps Uuid::now_v6(node_id): a version 6 UUID whose    *)
(* bytes are, most significant first, the 60 bit count of 100ns ticks read *)
(* from the system clock, the 14 bit clock sequence and the 48 bit node    *)
(* identity.  The clock sequence is the process-wide 16 bit counter of the *)
(* uuid crate, seeded at random, post-incremented (wrapping) by every call *)
(* and masked to 14 bits.  The derived Ord compares the bytes, so indices  *)
(* are ordered by (ticks, clock sequence, node).                           *)
(***************************************************************************)
EXTENDS Integers, Sequences, FiniteSets, TLC

\* ---------------------------------------------------------------- bounds
MaxTick == 1        \* the system clock reads 0..MaxTick
MaxCalls == 3       \* recorded calls of CommandListIndex::new
MaxSkips == 1       \* runs of calls whose results nobody keeps
MaxBufs == 3        \* command buffers created in one run
MaxFrames == 2      \* calls of queue.submit in one run
MaxOps == 3         \* calls made on one render context

\* ------------------------------------------------------ program constants
U16Max == 65535     \* the clock sequence counter is an AtomicU16
SeqMask == 16383    \* u16::MAX >> 2: the 14 bits RFC 4122 leaves it

Threads == {1, 2}
Nodes == {1, 2}             \* node identities (&[u8; 6])
SeedCounts == {0, U16Max}   \* seeds of the counter
SkipLens == {SeqMask}       \* lengths of a run of unrecorded calls
BatchSizes == {0, 1, 2}     \* command buffers handed to one submit_cmds

VARIABLES
    now,        \* the system clock, in 100ns ticks
    count,      \* the process-wide clock sequence counter
    pc,         \* per thread: position inside CommandListIndex::new
    arg,        \* per thread: node identity of the call in progress
    ticks,      \* per thread: the clock value the call has read
    seen,       \* per thread: number of calls returned when this one began
    issued,     \* returned indices, in order of return
    skips,      \* runs of unrecorded calls so far
    node_id,    \* Gpu.node_id
    commands,   \* Gpu.commands: the ledger, CommandListIndex -> buffer
    queue,      \* what the device queue was handed: one batch per submit
    nextBuf,    \* identity of the next command buffer to be created
    op,         \* the last facade operation and its outcome
    pre,        \* the ledger as that operation (for a frame: its present) found it
    keys,       \* the keys of the last drain, in drain order
    held,       \* per thread: the output it is submitting (0: none)
    made,       \* per thread: the index generated for that output
    late,       \* outputs inserted while the current or last drain ran
    owed,       \* outputs inserted while the drain before that one ran
    frame,      \* the steps of the frame in progress or last finished
    shown,      \* surface textures presented
    ctx,        \* the RenderCtx
    live,       \* the RenderCtx has not been moved out by finish()
    outs,       \* the outputs finish() has returned
    nops,       \* calls made on the RenderCtx
    lastCall,   \* the last call on the RenderCtx
    prev,       \* the RenderCtx as that call found it
    trace       \* the primitive calls that call made, in order

vars == <<now, count, pc, arg, ticks, seen, issued, skips,
          node_id, commands, queue, nextBuf, op, pre, keys,
          held, made, late, owed, frame, shown,
          ctx, live, outs, nops, lastCall, prev, trace>>

parVars == <<held, made, late, owed>>
frameVars == <<frame, shown>>
ctxVars == <<ctx, live, outs, nops, lastCall, prev, trace>>
extVars == <<parVars, frameVars, ctxVars>>

genVars == <<pc, arg, ticks, seen, issued>>
gpuVars == <<node_id, commands, queue, nextBuf, op, pre, keys>>

\* ------------------------------------------------------- CommandListIndex

\* Uuid::now_v6: the index built from a clock reading, a counter value and
\* the node identity.
Uuid(t, c, n) == [ts |-> t, seq |-> c % (SeqMask + 1), node |-> n]

\* derive(PartialOrd, Ord) on the UUID bytes.
IdxLess(a, b) ==
    \/ a.ts < b.ts
    \/ a.ts = b.ts /\ a.seq < b.seq
    \/ a.ts = b.ts /\ a.seq = b.seq /\ a.node < b.node

\* fetch_add(1) on the AtomicU16.
Bump(c) == (c + 1) % (U16Max + 1)

\* The system clock moves on.
Tick ==
    /\ now < MaxTick
    /\ now' = now + 1
    /\ UNCHANGED <<count, skips>>
    /\ UNCHANGED genVars
    /\ UNCHANGED extVars
    /\ UNCHANGED gpuVars

\* The system clock is set back (SystemTime is not monotonic).
ClockSetBack ==
    /\ \E t \in 0..(now - 1) : now' = t
    /\ UNCHANGED <<count, skips>>
    /\ UNCHANGED genVars
    /\ UNCHANGED extVars
    /\ UNCHANGED gpuVars

\* A run of k calls of CommandListIndex::new somewhere in the process whose
\* results are not recorded: each one advances the shared counter.
BumpBy(c, k) == (c + k) % (U16Max + 1)

Skip(k) ==
    /\ skips < MaxSkips
    /\ skips' = skips + 1
    /\ count' = BumpBy(count, k)
    /\ UNCHANGED now
    /\ UNCHANGED genVars
    /\ UNCHANGED extVars
    /\ UNCHANGED gpuVars

\* Thread t enters CommandListIndex::new(n) and reads the clock.
ReadClock(t, n) ==
    /\ pc[t] = "idle"
    /\ Len(issued) + Cardinality({u \in Threads : pc[u] = "timed"}) < MaxCalls
    /\ pc' = [pc EXCEPT ![t] = "timed"]
    /\ arg' = [arg EXCEPT ![t] = n]
    /\ ticks' = [ticks EXCEPT ![t] = now]
    /\ seen' = [seen EXCEPT ![t] = Len(issued)]
    /\ UNCHANGED <<now, count, skips, issued>>
    /\ UNCHANGED gpuVars
    /\ UNCHANGED extVars

\* Thread t takes its clock sequence from the counter and returns.
TakeSeq(t) ==
    /\ pc[t] = "timed"
    /\ issued' = Append(issued, [idx |-> Uuid(ticks[t], count, arg[t]),
                                 by |-> t, after |-> seen[t]])
    /\ count' = Bump(count)
    /\ pc' = [pc EXCEPT ![t] = "idle"]
    /\ UNCHANGED <<now, skips, arg, ticks, seen>>
    /\ UNCHANGED gpuVars
    /\ UNCHANGED extVars

\* BTreeMap::new().
EmptyMap == [k \in {} |-> 0]

Idle == [name |-> "none", res |-> "ok", n |-> 0, q |-> 0]

\* An index no call has produced yet.
NoIdx == [ts |-> 0, seq |-> 0, node |-> 0]

\* Option: None and Some(x).
None == <<>>
Some(x) == <<x>>

\* RenderCtx::default(): the value of #[derive(Default)].
DefaultCtx ==
    [bind_groups |-> <<>>, vertex_buffer |-> None, index_buffer |-> None,
     pipeline |-> None, draw_cmd |-> None]

\* A call on the context: the method and its arguments.  slot and obj are
\* the slot and the pipeline, bind group, buffer, mesh or model passed; mat
\* and cam the material and the camera bind group of a mesh or model draw;
\* idx, base and inst the index range, base vertex and instance range.
Call(f, slot, obj, mat, cam, idx, base, inst) ==
    [f |-> f, slot |-> slot, obj |-> obj, mat |-> mat, cam |-> cam,
     idx |-> idx, base |-> base, inst |-> inst, res |-> "ok"]

NoRange == <<0, 0>>
NoCall == Call("new", 0, 0, 0, 0, NoRange, 0, NoRange)

NoCtx ==
    /\ ctx = DefaultCtx
    /\ live = TRUE
    /\ outs = <<>>
    /\ nops = 0
    /\ lastCall = NoCall
    /\ prev = DefaultCtx
    /\ trace = <<>>

NoExt ==
    /\ held = [t \in Threads |-> 0]
    /\ made = [t \in Threads |-> NoIdx]
    /\ late = {}
    /\ owed = {}
    /\ frame = <<>>
    /\ shown = 0
    /\ NoCtx

NoGpu ==
    /\ node_id = 1
    /\ commands = EmptyMap
    /\ queue = <<>>
    /\ nextBuf = 1
    /\ op = Idle
    /\ pre = EmptyMap
    /\ keys = <<>>

InitIdx ==
    /\ now = 0
    /\ count \in SeedCounts
    /\ pc = [t \in Threads |-> "idle"]
    /\ arg = [t \in Threads |-> 1]
    /\ ticks = [t \in Threads |-> 0]
    /\ seen = [t \in Threads |-> 0]
    /\ issued = <<>>
    /\ skips = 0
    /\ NoGpu
    /\ NoExt

NextIdx ==
    \/ Tick
    \/ ClockSetBack
    \/ \E k \in SkipLens : Skip(k)
    \/ \E t \in Threads, n \in Nodes : ReadClock(t, n)
    \/ \E t \in Threads : TakeSeq(t)

SpecIdx == InitIdx /\ [][NextIdx]_vars

\* ------------------------------------------------------------- the ledger

\* BTreeMap::insert: a value under an existing key replaces the old one.
Insert(m, k, b) ==
    [x \in (DOMAIN m) \cup {k} |-> IF x = k THEN b ELSE m[x]]

\* BTreeMap::extend over cmds.map(|cmd| (CommandListIndex::new(node_id), cmd)):
\* one index per buffer, generated as the buffer is reached.  stamps are the
\* clock readings of the successive calls, c the counter, b the identity of
\* the first buffer.
RECURSIVE Extend(_, _, _, _, _)
Extend(m, stamps, c, n, b) ==
    IF stamps = <<>> THEN m
    ELSE Extend(Insert(m, Uuid(Head(stamps), c, n), b),
                Tail(stamps), Bump(c), n, b + 1)

\* FirstKey with the comparison turned round: the map yields its last key.
FirstKeyReversed(S) == CHOOSE k \in S : \A o \in S : o = k \/ IdxLess(o, k)

\* The first key of a non-empty key set in the order of the BTreeMap.
FirstKey(S) == CHOOSE k \in S : \A o \in S : o = k \/ IdxLess(k, o)

\* BTreeMap::into_iter: the keys in the order the map yields them.
RECURSIVE KeyOrder(_)
KeyOrder(S) ==
    IF S = {} THEN <<>>
    ELSE LET k == FirstKey(S) IN <<k>> \o KeyOrder(S \ {k})

\* Values that loses the first entry of the map.
ValuesSkipFirst(m) ==
    LET ks == KeyOrder(DOMAIN m) IN
    IF ks = <<>> THEN <<>> ELSE [i \in 1..(Len(ks) - 1) |-> m[ks[i + 1]]]

\* cmds_map.into_iter().map(|entry| entry.1)
Values(m) == LET ks == KeyOrder(DOMAIN m) IN [i \in 1..Len(ks) |-> m[ks[i]]]

\* Taken for a drain that iterates the map in place and leaves it as it was.
TakenKept(m) == m

\* std::mem::take(&mut self.commands): what is left behind in the field.
Taken(m) == EmptyMap

\* PresentResult for a present that refuses an empty ledger.
PresentResultNonEmpty(m) == IF m = EmptyMap THEN "empty" ELSE "ok"

\* Gpu::present returns (): it cannot fail.
PresentResult(m) == "ok"

Range(f) == {f[x] : x \in DOMAIN f}

\* The clock readings of n successive calls, the first one being now.
Readings(n) == {r \in [1..n -> 0..MaxTick] : n > 0 => r[1] = now}

\* Gpu::submit_cmds(cmds) for n fresh command buffers.
SubmitCmds(n) ==
    /\ nextBuf + n - 1 <= MaxBufs
    /\ \E r \in Readings(n) :
        /\ commands' = Extend(commands, r, count, node_id, nextBuf)
        /\ now' = IF n = 0 THEN now ELSE r[n]
    /\ count' = BumpBy(count, n)
    /\ nextBuf' = nextBuf + n
    /\ op' = [name |-> "submit", res |-> "ok", n |-> n, q |-> Len(queue)]
    /\ pre' = commands
    /\ UNCHANGED <<skips, node_id, queue, keys>>
    /\ UNCHANGED genVars
    /\ UNCHANGED extVars

\* Gpu::present().
Present ==
    /\ Len(queue) < MaxFrames
    /\ queue' = Append(queue, Values(commands))
    /\ commands' = Taken(commands)
    /\ keys' = KeyOrder(DOMAIN commands)
    /\ op' = [name |-> "present", res |-> PresentResult(commands),
              n |-> 0, q |-> Len(queue)]
    /\ pre' = commands
    /\ UNCHANGED <<now, count, skips, node_id, nextBuf>>
    /\ UNCHANGED genVars
    /\ UNCHANGED extVars

\* Gpu::create_texture: decodes the bytes, Ok or TextureError.
CreateTexture(res) ==
    /\ op' = [name |-> "create_texture", res |-> res, n |-> 0, q |-> Len(queue)]
    /\ pre' = commands
    /\ UNCHANGED <<now, count, skips, node_id, commands, queue, nextBuf,
                   keys>>
    /\ UNCHANGED genVars
    /\ UNCHANGED extVars

ShaderSrcs == {1, 2}

create_pipeline_made(shader_src) == "ok"

\* The outcome of create_pipeline: its body is todo!(), which panics with
\* "not yet implemented" whatever it is given.
create_pipeline(shader_src) == "panic"

\* create_pipeline(shader_src, pipeline_builder) takes &self and touches no
\* field of the Gpu.
CreatePipeline(shader_src) ==
    /\ op' = [name |-> "create_pipeline", res |-> create_pipeline(shader_src),
              n |-> shader_src, q |-> Len(queue)]
    /\ pre' = commands
    /\ UNCHANGED <<now, count, skips, node_id, commands, queue, nextBuf,
                   keys>>
    /\ UNCHANGED genVars
    /\ UNCHANGED extVars

\* RenderFail for a frame that drains the ledger before it acquires the
\* surface texture.
RenderFailLate ==
    /\ Len(queue) < MaxFrames
    /\ queue' = Append(queue, Values(commands))
    /\ commands' = Taken(commands)
    /\ keys' = KeyOrder(DOMAIN commands)
    /\ op' = [name |-> "render", res |-> "SurfaceError", n |-> 0,
              q |-> Len(queue)]
    /\ pre' = commands
    /\ UNCHANGED <<now, count, skips, node_id, nextBuf>>
    /\ UNCHANGED genVars
    /\ UNCHANGED extVars

\* RenderContext::render when get_current_texture() fails: the ? returns
\* the SurfaceError before anything else is done.
RenderFail ==
    /\ op' = [name |-> "render", res |-> "SurfaceError", n |-> 0,
              q |-> Len(queue)]
    /\ pre' = commands
    /\ UNCHANGED <<now, count, skips, node_id, commands, queue, nextBuf,
                   keys>>
    /\ UNCHANGED genVars
    /\ UNCHANGED extVars

\* RenderContext::render when the surface texture is acquired: the render
\* pass is recorded and the encoder finished into one command buffer (end),
\* then gpu.submit_cmds(that buffer), gpu.present(), surface.present().
\* The render bundles and the surface are not part of the ledger's state.
RenderOk ==
    /\ nextBuf <= MaxBufs
    /\ Len(queue) < MaxFrames
    /\ LET led == Extend(commands, <<now>>, count, node_id, nextBuf) IN
        /\ queue' = Append(queue, Values(led))
        /\ commands' = Taken(led)
        /\ keys' = KeyOrder(DOMAIN led)
        /\ pre' = led
    /\ count' = Bump(count)
    /\ nextBuf' = nextBuf + 1
    /\ op' = [name |-> "render", res |-> "ok", n |-> 1, q |-> Len(queue)]
    /\ UNCHANGED <<now, skips, node_id>>
    /\ UNCHANGED genVars
    /\ UNCHANGED extVars

Init ==
    /\ now = 0
    /\ count \in SeedCounts
    /\ pc = [t \in Threads |-> "idle"]
    /\ arg = [t \in Threads |-> 1]
    /\ ticks = [t \in Threads |-> 0]
    /\ seen = [t \in Threads |-> 0]
    /\ issued = <<>>
    /\ skips = 0
    /\ node_id = 1
    /\ commands = EmptyMap
    /\ queue = <<>>
    /\ nextBuf = 1
    /\ op = Idle
    /\ pre = EmptyMap
    /\ keys = <<>>
    /\ NoExt

Next ==
    \/ Tick
    \/ ClockSetBack
    \/ \E k \in SkipLens : Skip(k)
    \/ \E n \in BatchSizes : SubmitCmds(n)
    \/ Present
    \/ \E res \in {"ok", "TextureError"} : CreateTexture(res)
    \/ RenderFail
    \/ RenderOk

Spec == Init /\ [][Next]_vars

\* The Gpu with pipeline creation among its calls: create_pipeline between
\* the submits, presents and texture creations of a run.
NextPipe ==
    \/ Tick
    \/ \E n \in BatchSizes : SubmitCmds(n)
    \/ Present
    \/ \E res \in {"ok", "TextureError"} : CreateTexture(res)
    \/ \E src \in ShaderSrcs : CreatePipeline(src)

SpecPipe == Init /\ [][NextPipe]_vars

\* ------------------------------------------- the ledger shared by threads
\* IGpu (mod.rs 69-85) takes &self and is Sync: submit_ctx_bundled calls
\* submit_ctx_out from the threads of a parallel iterator, and present()
\* may run meanwhile.  The ledger is then the one contended resource: an
\* insert and the take of present() are each one step on it.

\* submit_ctx_out(out) on thread t: the output is handed over and
\* CommandListIndex::new reads the clock.
SubmitBegin(t) ==
    /\ pc[t] = "idle"
    /\ nextBuf <= MaxBufs
    /\ held' = [held EXCEPT ![t] = nextBuf]
    /\ nextBuf' = nextBuf + 1
    /\ ticks' = [ticks EXCEPT ![t] = now]
    /\ pc' = [pc EXCEPT ![t] = "timed"]
    /\ UNCHANGED <<now, count, skips, arg, seen, issued>>
    /\ UNCHANGED <<node_id, commands, queue, op, pre, keys>>
    /\ UNCHANGED <<made, late, owed>>
    /\ UNCHANGED frameVars
    /\ UNCHANGED ctxVars

\* CommandListIndex::new on thread t takes the clock sequence and returns
\* the index.
SubmitSeq(t) ==
    /\ pc[t] = "timed"
    /\ made' = [made EXCEPT ![t] = Uuid(ticks[t], count, node_id)]
    /\ count' = Bump(count)
    /\ pc' = [pc EXCEPT ![t] = "keyed"]
    /\ UNCHANGED <<now, skips, arg, ticks, seen, issued>>
    /\ UNCHANGED gpuVars
    /\ UNCHANGED <<held, late, owed>>
    /\ UNCHANGED frameVars
    /\ UNCHANGED ctxVars

\* Thread t inserts (index, output) into the ledger.
SubmitInsert(t) ==
    /\ pc[t] = "keyed"
    /\ commands' = Insert(commands, made[t], held[t])
    /\ late' = IF op.name = "draining" THEN late \cup {held[t]} ELSE late
    /\ pc' = [pc EXCEPT ![t] = "idle"]
    /\ held' = [held EXCEPT ![t] = 0]
    /\ made' = [made EXCEPT ![t] = NoIdx]
    /\ UNCHANGED <<now, count, skips, arg, ticks, seen, issued>>
    /\ UNCHANGED <<node_id, queue, nextBuf, op, pre, keys>>
    /\ UNCHANGED owed
    /\ UNCHANGED frameVars
    /\ UNCHANGED ctxVars

\* present(), first statement: cmds_map = std::mem::take(&mut self.commands).
PresentTake ==
    /\ op.name # "draining"
    /\ Len(queue) < MaxFrames
    /\ pre' = commands
    /\ commands' = Taken(commands)
    /\ op' = [name |-> "draining", res |-> "ok", n |-> 0, q |-> Len(queue)]
    /\ owed' = late
    /\ late' = {}
    /\ UNCHANGED <<now, count, skips, node_id, queue, nextBuf, keys>>
    /\ UNCHANGED genVars
    /\ UNCHANGED <<held, made>>
    /\ UNCHANGED frameVars
    /\ UNCHANGED ctxVars

\* present(), the rest: queue.submit(cmds_map.into_iter().map(|e| e.1)).
PresentSubmit ==
    /\ op.name = "draining"
    /\ queue' = Append(queue, Values(pre))
    /\ keys' = KeyOrder(DOMAIN pre)
    /\ op' = [name |-> "present", res |-> PresentResult(pre), n |-> 0,
              q |-> Len(queue)]
    /\ UNCHANGED <<now, count, skips, node_id, commands, nextBuf, pre>>
    /\ UNCHANGED genVars
    /\ UNCHANGED extVars

NextPar ==
    \/ Tick
    \/ ClockSetBack
    \/ \E k \in SkipLens : Skip(k)
    \/ \E t \in Threads : SubmitBegin(t)
    \/ \E t \in Threads : SubmitSeq(t)
    \/ \E t \in Threads : SubmitInsert(t)
    \/ PresentTake
    \/ PresentSubmit

SpecPar == Init /\ [][NextPar]_vars

\* ------------------------------------------------- one frame, step by step
\* RenderContext::render borrows the Gpu mutably for the whole frame, so no
\* other facade operation runs between its statements; the clock does.

\* RenderOrder with the surface presented right after it is acquired.
RenderOrderShowEarly ==
    <<"acquire", "surface_present", "submit_cmds", "queue_submit">>

\* The statements of render() that touch the surface, the ledger or the
\* queue, in program order: get_current_texture()?, gpu.submit_cmds(end()),
\* gpu.present(), surface.present().
RenderOrder ==
    <<"acquire", "submit_cmds", "queue_submit", "surface_present">>

InFrame ==
    /\ frame # <<>>
    /\ frame # <<"acquire_failed">>
    /\ Len(frame) < Len(RenderOrder)

\* The statement render() is at.
AtStep(name) == InFrame /\ RenderOrder[Len(frame) + 1] = name

\* let surface = self.gpu_resource.surface.get_current_texture()?;
FrameAcquire(ok) ==
    /\ ~InFrame
    /\ nextBuf <= MaxBufs
    /\ Len(queue) < MaxFrames
    /\ frame' = IF ok THEN <<"acquire">> ELSE <<"acquire_failed">>
    /\ op' = [name |-> "render", res |-> IF ok THEN "ok" ELSE "SurfaceError",
              n |-> 0, q |-> Len(queue)]
    /\ pre' = commands
    /\ UNCHANGED <<now, count, skips, node_id, commands, queue, nextBuf,
                   keys>>
    /\ UNCHANGED genVars
    /\ UNCHANGED parVars
    /\ UNCHANGED shown
    /\ UNCHANGED ctxVars

\* gpu.submit_cmds(self.end());
FrameSubmitCmds ==
    /\ AtStep("submit_cmds")
    /\ commands' = Extend(commands, <<now>>, count, node_id, nextBuf)
    /\ count' = Bump(count)
    /\ nextBuf' = nextBuf + 1
    /\ frame' = Append(frame, "submit_cmds")
    /\ UNCHANGED <<now, skips, node_id, queue, op, pre, keys>>
    /\ UNCHANGED genVars
    /\ UNCHANGED parVars
    /\ UNCHANGED shown
    /\ UNCHANGED ctxVars

\* gpu.present();
FramePresent ==
    /\ AtStep("queue_submit")
    /\ queue' = Append(queue, Values(commands))
    /\ commands' = Taken(commands)
    /\ keys' = KeyOrder(DOMAIN commands)
    /\ pre' = commands
    /\ frame' = Append(frame, "queue_submit")
    /\ UNCHANGED <<now, count, skips, node_id, nextBuf, op>>
    /\ UNCHANGED genVars
    /\ UNCHANGED parVars
    /\ UNCHANGED shown
    /\ UNCHANGED ctxVars

\* surface.present();
FrameShow ==
    /\ AtStep("surface_present")
    /\ shown' = shown + 1
    /\ frame' = Append(frame, "surface_present")
    /\ UNCHANGED <<now, count, skips>>
    /\ UNCHANGED gpuVars
    /\ UNCHANGED genVars
    /\ UNCHANGED parVars
    /\ UNCHANGED ctxVars

\* submit_cmds from the caller, between two frames.
IdleSubmit(n) == ~InFrame /\ SubmitCmds(n)

NextFrame ==
    \/ Tick
    \/ ClockSetBack
    \/ \E n \in BatchSizes : IdleSubmit(n)
    \/ \E ok \in BOOLEAN : FrameAcquire(ok)
    \/ FrameSubmitCmds
    \/ FramePresent
    \/ FrameShow

SpecFrame == Init /\ [][NextFrame]_vars

\* ------------------------------------------------------ the render context
\* RenderCtx (render_ctx.rs) records what a render pass is to do: the calls of
\* IRenderContext store their arguments in its fields, the calls of DrawModel
\* are made of those calls, and finish() moves the context into a CtxOut.
\* Pipelines, bind groups and buffers are borrowed; the model names each by a
\* number.

Pipelines == {1}
Slots == {0, 1}
Groups == {1, 2}
CameraGroup == 3
Buffers == {1, 2}
InstanceRanges == {<<0, 2>>}
DrawArgs ==
    {[idx |-> <<0, 6>>, base |-> 0, inst |-> <<0, 1>>],
     [idx |-> <<0, 3>>, base |-> 1, inst |-> <<0, 2>>]}

\* model::Material, model::Mesh and model::Model, by the fields the context
\* reads.  Mesh.material is an index into the materials of the model.
Materials == <<[bind_group |-> 1], [bind_group |-> 2]>>

Meshes ==
    <<[vertex_buffer |-> 1, index_buffer |-> 2, num_elements |-> 6,
       material |-> 0],
      [vertex_buffer |-> 2, index_buffer |-> 1, num_elements |-> 3,
       material |-> 1],
      [vertex_buffer |-> 2, index_buffer |-> 2, num_elements |-> 3,
       material |-> 2]>>

\* Four models: one whose k-th mesh names the k-th material, one whose
\* meshes name the materials crosswise, one without meshes, and one whose
\* second mesh names a material the model does not have.
Models ==
    <<[meshes |-> <<Meshes[1], Meshes[2]>>, materials |-> Materials],
      [meshes |-> <<Meshes[2], Meshes[1]>>, materials |-> Materials],
      [meshes |-> <<>>, materials |-> <<>>],
      [meshes |-> <<Meshes[1], Meshes[3]>>, materials |-> Materials]>>

\* The calls of IRenderContext as values.
SetPipelineCall(p) == Call("set_pipeline", 0, p, 0, 0, NoRange, 0, NoRange)
SetBindGroupCall(slot, g) ==
    Call("set_bind_group", slot, g, 0, 0, NoRange, 0, NoRange)
SetVertexBufferCall(slot, b) ==
    Call("set_vertex_buffer", slot, b, 0, 0, NoRange, 0, NoRange)
SetIndexBufferCall(slot, b) ==
    Call("set_index_buffer", slot, b, 0, 0, NoRange, 0, NoRange)
DrawCall(idx, base, inst) == Call("draw", 0, 0, 0, 0, idx, base, inst)

set_pipeline(c, p) == [c EXCEPT !.pipeline = Some(p)]

set_bind_group_replacing(c, slot, g) ==
    [c EXCEPT !.bind_groups =
        Append(SelectSeq(@, LAMBDA e : e[1] # slot), <<slot, g>>)]

set_bind_group(c, slot, g) ==
    [c EXCEPT !.bind_groups = Append(@, <<slot, g>>)]

draw_keeping_first(c, idx, base, inst) ==
    IF c.draw_cmd = None
    THEN [c EXCEPT !.draw_cmd =
            Some([indices |-> idx, instances |-> inst, base_vertex |-> base])]
    ELSE c

draw(c, idx, base, inst) ==
    [c EXCEPT !.draw_cmd =
        Some([indices |-> idx, instances |-> inst, base_vertex |-> base])]

set_index_buffer(c, slot, b) == [c EXCEPT !.index_buffer = Some(b)]

set_vertex_buffer_dropping_index(c, slot, b) ==
    [c EXCEPT !.vertex_buffer = Some(<<slot, b>>), !.index_buffer = None]

set_vertex_buffer(c, slot, b) ==
    [c EXCEPT !.vertex_buffer = Some(<<slot, b>>)]

\* The context after one call of IRenderContext.
Apply(c, k) ==
    CASE k.f = "set_pipeline" -> set_pipeline(c, k.obj)
      [] k.f = "set_bind_group" -> set_bind_group(c, k.slot, k.obj)
      [] k.f = "set_vertex_buffer" -> set_vertex_buffer(c, k.slot, k.obj)
      [] k.f = "set_index_buffer" -> set_index_buffer(c, k.slot, k.obj)
      [] k.f = "draw" -> draw(c, k.idx, k.base, k.inst)

RECURSIVE ApplyAll(_, _)
ApplyAll(c, ks) ==
    IF ks = <<>> THEN c ELSE ApplyAll(Apply(c, Head(ks)), Tail(ks))

\* The calls draw_mesh_instanced makes on the context, in order.
draw_mesh_instanced_bare(mesh, material, instances, camera) ==
    <<SetVertexBufferCall(0, mesh.vertex_buffer),
      SetIndexBufferCall(1, mesh.index_buffer),
      DrawCall(<<0, mesh.num_elements>>, 0, instances)>>

draw_mesh_instanced(mesh, material, instances, camera) ==
    <<SetVertexBufferCall(0, mesh.vertex_buffer),
      SetIndexBufferCall(1, mesh.index_buffer),
      SetBindGroupCall(0, material.bind_group),
      SetBindGroupCall(1, camera),
      DrawCall(<<0, mesh.num_elements>>, 0, instances)>>

MaterialAtPosition(model, k) == k

\* The material draw_model_instanced passes with a mesh.
MaterialAt(model, k) == model.meshes[k].material + 1

\* The loop of draw_model_instanced from the k-th mesh on: the calls made,
\* and whether the loop ended or indexing the materials panicked.
RECURSIVE DrawMeshesFrom(_, _, _, _)
DrawMeshesFrom(model, k, instances, camera) ==
    IF k > Len(model.meshes)
    THEN [prims |-> <<>>, res |-> "ok"]
    ELSE IF MaterialAt(model, k) > Len(model.materials)
    THEN [prims |-> <<>>, res |-> "panic"]
    ELSE LET rest == DrawMeshesFrom(model, k + 1, instances, camera)
         IN  [prims |-> draw_mesh_instanced(model.meshes[k],
                            model.materials[MaterialAt(model, k)],
                            instances, camera) \o rest.prims,
              res |-> rest.res]

draw_model_instanced(model, instances, camera) ==
    DrawMeshesFrom(model, 1, instances, camera)

finish_without_draw(c) ==
    [kind |-> "Render", ctx |-> [c EXCEPT !.draw_cmd = None]]

finish(c) == [kind |-> "Render", ctx |-> c]

\* The methods that take the context by value.
SelfByValueNone == {}

SelfByValue == {"finish"}

ledgerVars == <<now, count, skips, genVars, gpuVars, parVars, frameVars>>

\* One call k on the context, which makes the calls prims of IRenderContext
\* and ends with res.  A context that was moved, or that a panic unwound, is
\* called no more.
CtxStep(k, prims, res) ==
    /\ live
    /\ ctx' = ApplyAll(ctx, prims)
    /\ prev' = ctx
    /\ lastCall' = [k EXCEPT !.res = res]
    /\ trace' = prims
    /\ live' = (res = "ok" /\ k.f \notin SelfByValue)
    /\ UNCHANGED ledgerVars

Counted ==
    /\ nops < MaxOps
    /\ nops' = nops + 1
    /\ UNCHANGED outs

SetPipeline(p) ==
    /\ Counted
    /\ CtxStep(SetPipelineCall(p), <<SetPipelineCall(p)>>, "ok")

SetBindGroup(slot, g) ==
    /\ Counted
    /\ CtxStep(SetBindGroupCall(slot, g), <<SetBindGroupCall(slot, g)>>, "ok")

SetVertexBuffer(slot, b) ==
    /\ Counted
    /\ CtxStep(SetVertexBufferCall(slot, b),
               <<SetVertexBufferCall(slot, b)>>, "ok")

SetIndexBuffer(slot, b) ==
    /\ Counted
    /\ CtxStep(SetIndexBufferCall(slot, b),
               <<SetIndexBufferCall(slot, b)>>, "ok")

Draw(a) ==
    /\ Counted
    /\ CtxStep(DrawCall(a.idx, a.base, a.inst),
               <<DrawCall(a.idx, a.base, a.inst)>>, "ok")

DrawMeshInstanced(m, mat, instances) ==
    /\ Counted
    /\ CtxStep(Call("draw_mesh_instanced", 0, m, mat, CameraGroup,
                    NoRange, 0, instances),
               draw_mesh_instanced(Meshes[m], Materials[mat], instances,
                                   CameraGroup),
               "ok")

DrawMesh(m, mat) == DrawMeshInstanced(m, mat, <<0, 1>>)

DrawModelInstanced(m, instances) ==
    LET r == draw_model_instanced(Models[m], instances, CameraGroup)
    IN  /\ Counted
        /\ CtxStep(Call("draw_model_instanced", 0, m, 0, CameraGroup,
                        NoRange, 0, instances),
                   r.prims, r.res)

DrawModel(m) == DrawModelInstanced(m, <<0, 1>>)

Finish ==
    /\ outs' = Append(outs, finish(ctx))
    /\ UNCHANGED nops
    /\ CtxStep(Call("finish", 0, 0, 0, 0, NoRange, 0, NoRange), <<>>, "ok")

NextCtx ==
    \/ \E p \in Pipelines : SetPipeline(p)
    \/ \E slot \in Slots, g \in Groups : SetBindGroup(slot, g)
    \/ \E slot \in Slots, b \in Buffers : SetVertexBuffer(slot, b)
    \/ \E slot \in Slots, b \in Buffers : SetIndexBuffer(slot, b)
    \/ \E a \in DrawArgs : Draw(a)
    \/ \E m \in {1, 2}, mat \in DOMAIN Materials : DrawMesh(m, mat)
    \/ \E m \in {1, 2}, mat \in DOMAIN Materials, i \in InstanceRanges :
          DrawMeshInstanced(m, mat, i)
    \/ \E m \in DOMAIN Models : DrawModel(m)
    \/ \E m \in DOMAIN Models, i \in InstanceRanges : DrawModelInstanced(m, i)
    \/ Finish

SpecCtx == Init /\ [][NextCtx]_vars

\* ------------------------------------------------- claims on the generator

\* Call i had returned before call j began.
Before(i, j) == i <= issued[j].after

SameNode(i, j) == issued[i].idx.node = issued[j].idx.node

\* C1: for every node identity, of two calls of CommandListIndex::new made
\* one after the other on the same thread, the earlier one returns the
\* strictly smaller index.
C1_SequentialIncreasing ==
    \A j \in 1..Len(issued) : \A i \in 1..Len(issued) :
        (Before(i, j) /\ issued[i].by = issued[j].by /\ SameNode(i, j))
            => IdxLess(issued[i].idx, issued[j].idx)

\* C2: no two calls of CommandListIndex::new, however they interleave,
\* return equal indices.
C2_Unique ==
    \A i \in 1..Len(issued) : \A j \in 1..Len(issued) :
        i # j => issued[i].idx # issued[j].idx

\* C3: for one node identity, an index whose generation had finished before
\* another's began is strictly smaller, on whichever threads the two calls
\* ran.
C3_RealTimeOrder ==
    \A j \in 1..Len(issued) : \A i \in 1..Len(issued) :
        (Before(i, j) /\ SameNode(i, j))
            => IdxLess(issued[i].idx, issued[j].idx)

\* ---------------------------------------------------- claims on the ledger

\* The last operation drained the ledger: a present(), alone or in a frame.
Drained == op.name \in {"present", "render"} /\ op.res = "ok"

Batch == queue[Len(queue)]

\* Every command buffer the device queue was handed, in order.
RECURSIVE Flatten(_)
Flatten(q) == IF q = <<>> THEN <<>> ELSE Head(q) \o Flatten(Tail(q))

Handed == Flatten(queue)

\* C4: present() hands the command buffers of the ledger to the queue in
\* strictly ascending CommandListIndex order, whatever order they were
\* inserted in.
C4_AscendingDrain ==
    Drained =>
        /\ Len(Batch) = Len(keys)
        /\ \A i \in 1..Len(keys) : keys[i] \in DOMAIN pre /\ Batch[i] = pre[keys[i]]
        /\ \A i \in 1..Len(keys) : \A j \in 1..Len(keys) :
            i < j => IdxLess(keys[i], keys[j])

\* A drain of two buffers whose key order is the reverse of the order they
\* were inserted in (buffers are numbered as they are created).
C4_Witness ==
    /\ Drained
    /\ Len(Batch) = 2
    /\ Batch[1] > Batch[2]

\* C5: every entry in the ledger when present() starts is handed to the
\* queue exactly once by that present() and removed; right after the
\* present() the ledger is empty.
C5_DrainAll ==
    Drained =>
        /\ commands = EmptyMap
        /\ Len(queue) = op.q + 1
        /\ \A k \in DOMAIN pre :
            Cardinality({i \in 1..Len(Batch) : Batch[i] = pre[k]}) = 1
        /\ Len(Batch) = Cardinality(DOMAIN pre)

C5_Witness ==
    /\ Drained
    /\ Cardinality(DOMAIN pre) >= 2
    /\ commands = EmptyMap

\* C6: when the surface texture cannot be acquired the frame returns a
\* SurfaceError, the queue is handed nothing and the ledger holds exactly
\* the entries it held before.
C6_FailedFrame ==
    (op.name = "render" /\ op.res # "ok") =>
        /\ op.res = "SurfaceError"
        /\ Len(queue) = op.q
        /\ commands = pre

C6_Witness ==
    /\ op.name = "render"
    /\ op.res = "SurfaceError"
    /\ commands # EmptyMap

\* C7: present() on an empty ledger succeeds, hands the queue no command
\* buffer and leaves the ledger empty.
C7_EmptyPresent ==
    (op.name = "present" /\ pre = EmptyMap) =>
        /\ op.res = "ok"
        /\ Len(queue) = op.q + 1
        /\ Batch = <<>>
        /\ commands = EmptyMap

C7_Witness ==
    /\ op.name = "present"
    /\ pre = EmptyMap
    /\ op.res = "ok"
    /\ Len(queue) >= 2

\* C8: submit of n command buffers inserts n new entries under fresh keys:
\* the ledger grows by exactly n and no entry it held is replaced or dropped.
C8_SubmitGrows ==
    op.name = "submit" =>
        /\ Cardinality(DOMAIN commands) = Cardinality(DOMAIN pre) + op.n
        /\ \A k \in DOMAIN pre : k \in DOMAIN commands /\ commands[k] = pre[k]

\* C9: over any sequence of submits and presents a command buffer is handed
\* to the device queue at most once: once moved out of the ledger it is in
\* no later batch.
C9_AtMostOnce ==
    /\ \A i \in 1..Len(Handed) : \A j \in 1..Len(Handed) :
        i # j => Handed[i] # Handed[j]
    /\ \A i \in 1..Len(Handed) : Handed[i] \notin Range(commands)

\* Two presents have each handed over a buffer and a third buffer waits.
C9_Witness ==
    /\ Len(queue) >= 2
    /\ queue[1] # <<>>
    /\ queue[2] # <<>>
    /\ commands # EmptyMap

\* C10: a command buffer in the ledger is removed by no operation other than
\* present(), and the next present() has it in its batch: every step either
\* leaves it in the ledger or hands it to the queue.
C10_NeverDropped ==
    [][\A b \in Range(commands) :
        \/ b \in Range(commands')
        \/ /\ Len(queue') = Len(queue) + 1
           /\ \E i \in 1..Len(queue'[Len(queue')]) : queue'[Len(queue')][i] = b
      ]_vars

\* ------------------------------------------ claims on the shared ledger

\* Outputs whose submit_ctx_out has returned.
Submitted == (1..(nextBuf - 1)) \ {held[t] : t \in Threads}

\* The keys an output is filed under in the ledger.
KeysOf(b) == {k \in DOMAIN commands : commands[k] = b}

\* C11: the drain of present() is a snapshot: an output submitted while a
\* present() drains is not in that present()'s batch, stays in the ledger,
\* and is in the batch of the next present().
C11_SnapshotDrain ==
    /\ op.name = "present" =>
        \A b \in late : b \notin Range(Batch) /\ b \in Range(commands)
    /\ op.name = "draining" => \A b \in owed : b \in Range(pre)
    /\ op.name = "present" => \A b \in owed : b \in Range(Batch)

\* C12: when threads submit concurrently, under every interleaving each
\* submitted output is in the ledger exactly once under its own key until a
\* present() takes it: no insert is lost and no entry is overwritten.
C12_NoLostInsert ==
    \A b \in Submitted :
        \/ Cardinality(KeysOf(b)) = 1
        \/ b \in Range(pre) /\ op.name = "draining"
        \/ \E i \in 1..Len(Handed) : Handed[i] = b

\* ------------------------------------------------------ claims on a frame

Pos(name) == {i \in 1..Len(frame) : frame[i] = name}

\* C13: in one frame the surface texture is acquired first, then the ledger
\* is drained and handed to the queue in a single submit call, and only
\* then is the surface texture presented: never before the batch.
C13_FrameOrder ==
    LET last == IF frame = <<>> THEN "none" ELSE frame[Len(frame)] IN
    /\ shown <= Len(queue)
    /\ Cardinality(Pos("queue_submit")) <= 1
    /\ Cardinality(Pos("surface_present")) <= 1
    /\ frame # <<>> => frame[1] \in {"acquire", "acquire_failed"}
    /\ \A i \in Pos("surface_present") : \E j \in Pos("queue_submit") : j < i
    /\ last = "queue_submit" =>
        /\ commands = EmptyMap
        /\ Len(queue) = op.q + 1
        /\ shown = op.q
    /\ last # "queue_submit" => Len(queue) = shown

\* A frame has run to its end and its one batch carried a waiting buffer
\* as well as the frame's own.
C13_Witness ==
    /\ frame # <<>>
    /\ frame[Len(frame)] = "surface_present"
    /\ shown = 1
    /\ Len(Batch) >= 2

\* --------------------------------------------- drain order and submit order

\* C14: buffers are drained in submission order: of two buffers in the
\* ledger the one submitted first (buffers are numbered as they are
\* submitted) has the smaller index and is handed to the queue first.
C14_SubmissionOrder ==
    /\ \A k1 \in DOMAIN commands : \A k2 \in DOMAIN commands :
        commands[k1] < commands[k2] => IdxLess(k1, k2)
    /\ Drained =>
        \A i \in 1..Len(Batch) : \A j \in 1..Len(Batch) :
            i < j => Batch[i] < Batch[j]

\* C21: create_pipeline never returns a pipeline and never returns
\* silently: every call panics as not implemented, and leaves the ledger
\* and the queue as they were.
C21_CreatePipelinePanics ==
    op.name = "create_pipeline" =>
        /\ op.res = "panic"
        /\ commands = pre
        /\ Len(queue) = op.q

\* create_pipeline was called on a Gpu with a buffer waiting in the ledger
\* and a batch already handed to the queue.
C21_Witness ==
    /\ op.name = "create_pipeline"
    /\ commands # EmptyMap
    /\ queue # <<>>

\* ---------------------------------------------- claims on the render context

DrawCmdOf(k) ==
    [indices |-> k.idx, instances |-> k.inst, base_vertex |-> k.base]

\* The draw calls among the calls the last call made.
Draws == SelectSeq(trace, LAMBDA k : k.f = "draw")

\* C15: after draw calls on a render context the context holds exactly one
\* pending draw command, that of the most recent draw call: an earlier
\* pending draw is overwritten.
C15_LastDrawWins ==
    /\ Len(ctx.draw_cmd) <= 1
    /\ Draws # <<>> => ctx.draw_cmd = Some(DrawCmdOf(Draws[Len(Draws)]))

\* A draw call found another draw pending and replaced it.
C15_Witness ==
    /\ lastCall.f = "draw"
    /\ prev.draw_cmd # None
    /\ prev.draw_cmd # ctx.draw_cmd

\* C16: finish() yields exactly one output, of the Render variant, that
\* carries the state the context had accumulated, unchanged.
C16_FinishCarriesState ==
    lastCall.f = "finish" => outs = <<[kind |-> "Render", ctx |-> prev]>>

\* A context that was given vertex buffer 1 at slot 0, index buffer 2, bind
\* group 1 at slot 0, the camera's at slot 1 and draw(0..6, 0, 0..1) has
\* finished into an output holding just that.
C16_Witness ==
    /\ lastCall.f = "finish"
    /\ Len(outs) = 1
    /\ outs[1].ctx =
        [bind_groups |-> <<<<0, 1>>, <<1, CameraGroup>>>>,
         vertex_buffer |-> Some(<<0, 1>>),
         index_buffer |-> Some(2),
         pipeline |-> None,
         draw_cmd |-> Some([indices |-> <<0, 6>>, instances |-> <<0, 1>>,
                            base_vertex |-> 0])]

\* The phases of a render context: Empty until its first call, Accumulating
\* from then on, Finished once finish() has returned its output.
Phase ==
    IF outs # <<>> THEN "Finished"
    ELSE IF nops = 0 THEN "Empty" ELSE "Accumulating"

\* C17: finish() is terminal: a context is finished at most once, and once
\* it is Finished no setter, draw or second finish is applied to it: finish
\* stays its last call and its fields stay those of the output.
C17_FinishTerminal ==
    /\ Len(outs) <= 1
    /\ Phase = "Finished" =>
        /\ lastCall.f = "finish"
        /\ ~live
        /\ outs[1].ctx = ctx
    /\ Phase = "Empty" => ctx = DefaultCtx /\ lastCall = NoCall

\* A context that had accumulated state has been finished.
C17_Witness ==
    /\ Phase = "Finished"
    /\ nops = MaxOps
    /\ ctx.pipeline # None

\* C18: draw_mesh_instanced(mesh, material, instances, camera) makes, in
\* this order, the calls set_vertex_buffer(0, vertex buffer of the mesh),
\* set_index_buffer(index buffer of the mesh), set_bind_group(0, bind group
\* of the material), set_bind_group(1, camera bind group) and
\* draw(0..num_elements, 0, instances), and leaves the context as those
\* calls leave it.
C18_MeshDrawIsPrimitives ==
    lastCall.f = "draw_mesh_instanced" =>
        LET mesh == Meshes[lastCall.obj]
            material == Materials[lastCall.mat]
        IN  /\ Len(trace) = 5
            /\ trace[1] = SetVertexBufferCall(0, mesh.vertex_buffer)
            /\ trace[2].f = "set_index_buffer"
            /\ trace[2].obj = mesh.index_buffer
            /\ trace[3] = SetBindGroupCall(0, material.bind_group)
            /\ trace[4] = SetBindGroupCall(1, lastCall.cam)
            /\ trace[5] = DrawCall(<<0, mesh.num_elements>>, 0, lastCall.inst)
            /\ ctx = draw(
                       set_bind_group(
                         set_bind_group(
                           set_index_buffer(
                             set_vertex_buffer(prev, 0, mesh.vertex_buffer),
                             trace[2].slot, mesh.index_buffer),
                           0, material.bind_group),
                         1, lastCall.cam),
                       <<0, mesh.num_elements>>, 0, lastCall.inst)

\* A mesh was drawn with two instances on a context that already held
\* state.
C18_Witness ==
    /\ lastCall.f = "draw_mesh_instanced"
    /\ lastCall.inst = <<0, 2>>
    /\ prev.bind_groups # <<>>
    /\ prev.draw_cmd # None

\* The last call drew a model with as many materials as meshes.
ModelDrawn ==
    /\ lastCall.f = "draw_model_instanced"
    /\ Len(Models[lastCall.obj].meshes) = Len(Models[lastCall.obj].materials)

\* The k-th five calls of the last call are a mesh draw with the buffers
\* of mesh and the bind group of material.
IsMeshDraw(k, mesh, material) ==
    /\ Len(trace) >= 5 * k
    /\ trace[5 * k - 4] = SetVertexBufferCall(0, mesh.vertex_buffer)
    /\ trace[5 * k - 3].f = "set_index_buffer"
    /\ trace[5 * k - 3].obj = mesh.index_buffer
    /\ trace[5 * k - 2] = SetBindGroupCall(0, material.bind_group)
    /\ trace[5 * k - 1] = SetBindGroupCall(1, lastCall.cam)
    /\ trace[5 * k] = DrawCall(<<0, mesh.num_elements>>, 0, lastCall.inst)

\* C19 as stated: draw_model_instanced on a model with n meshes and n
\* materials makes exactly n mesh draws, the k-th with the buffers of the
\* k-th mesh and, at bind group 0, the k-th material.
C19_PositionalMaterial ==
    ModelDrawn =>
        LET model == Models[lastCall.obj]
        IN  /\ Len(trace) = 5 * Len(model.meshes)
            /\ \A k \in DOMAIN model.meshes :
                IsMeshDraw(k, model.meshes[k], model.materials[k])

\* Every mesh of the model names a material the model has.
MaterialsInRange(model) ==
    \A k \in DOMAIN model.meshes :
        model.meshes[k].material < Len(model.materials)

\* C19: draw_model_instanced on a model with n meshes, each naming by its
\* material index one of the materials of the model, makes exactly n mesh
\* draws in the order the meshes are stored, the k-th with the buffers of
\* the k-th mesh and, at bind group 0, the material that mesh names; when a
\* mesh names a material the model lacks the call panics at that mesh.
C19_IndexedMaterial ==
    lastCall.f = "draw_model_instanced" =>
        LET model == Models[lastCall.obj]
        IN  IF MaterialsInRange(model)
            THEN /\ lastCall.res = "ok"
                 /\ Len(trace) = 5 * Len(model.meshes)
                 /\ \A k \in DOMAIN model.meshes :
                     IsMeshDraw(k, model.meshes[k],
                        model.materials[model.meshes[k].material + 1])
            ELSE /\ lastCall.res = "panic"
                 /\ ~live
                 /\ Len(trace) < 5 * Len(model.meshes)

\* A model whose meshes name the materials crosswise has been drawn.
C19_Witness ==
    /\ ModelDrawn
    /\ lastCall.res = "ok"
    /\ Len(trace) = 10
    /\ \E k \in DOMAIN Models[lastCall.obj].meshes :
        Models[lastCall.obj].meshes[k].material + 1 # k

\* The bindings of slot among the bind groups bgs.
BoundAt(bgs, slot) == {i \in DOMAIN bgs : bgs[i][1] = slot}

\* C20 as stated: at finish time the context holds at most one binding for
\* each slot, that of the most recent set_bind_group call for the slot.
C20_LastWriteWins ==
    lastCall.f = "finish" =>
        \A slot \in Slots :
            Cardinality(BoundAt(outs[1].ctx.bind_groups, slot)) <= 1

\* The (slot, group) pairs of the set_bind_group calls the last call made.
RECURSIVE Bindings(_)
Bindings(ks) ==
    IF ks = <<>> THEN <<>>
    ELSE IF Head(ks).f = "set_bind_group"
    THEN <<<<Head(ks).slot, Head(ks).obj>>>> \o Bindings(Tail(ks))
    ELSE Bindings(Tail(ks))

\* C20: set_bind_group appends: the context keeps the (slot, group) pair of
\* every set_bind_group call in call order, also for a slot bound before,
\* so the most recent binding of a slot is the last entry for that slot;
\* finish() hands the whole list over.
C20_AllRetained ==
    /\ ctx.bind_groups = prev.bind_groups \o Bindings(trace)
    /\ lastCall.f = "finish" => outs[1].ctx.bind_groups = prev.bind_groups

\* A slot that was bound has been bound again to another group.
C20_Witness ==
    /\ lastCall.f = "set_bind_group"
    /\ \E i \in BoundAt(prev.bind_groups, lastCall.slot) :
        prev.bind_groups[i][2] # lastCall.obj
    /\ Cardinality(BoundAt(ctx.bind_groups, lastCall.slot)) >= 2

\* The fields of RenderCtx that hold state.
Fields ==
    {"bind_groups", "vertex_buffer", "index_buffer", "pipeline", "draw_cmd"}

\* The last call left every field but fld as it found it.
OnlyChanged(fld) == \A g \in Fields \ {fld} : ctx[g] = prev[g]

\* C22: a new render context is empty, and each primitive changes only its
\* own field: set_pipeline the pipeline, set_vertex_buffer the (slot, vertex
\* buffer) pair, set_index_buffer the index buffer whatever slot it is
\* given, set_bind_group the bind-group list, draw the pending draw command.
C22_OwnFieldOnly ==
    /\ (nops = 0 /\ outs = <<>>) =>
        /\ ctx.pipeline = None
        /\ ctx.bind_groups = <<>>
        /\ ctx.vertex_buffer = None
        /\ ctx.index_buffer = None
        /\ ctx.draw_cmd = None
    /\ lastCall.f = "set_pipeline" =>
        /\ ctx.pipeline = Some(lastCall.obj)
        /\ OnlyChanged("pipeline")
    /\ lastCall.f = "set_vertex_buffer" =>
        /\ ctx.vertex_buffer = Some(<<lastCall.slot, lastCall.obj>>)
        /\ OnlyChanged("vertex_buffer")
    /\ lastCall.f = "set_index_buffer" =>
        /\ ctx.index_buffer = Some(lastCall.obj)
        /\ OnlyChanged("index_buffer")
    /\ lastCall.f = "set_bind_group" =>
        /\ ctx.bind_groups =
            Append(prev.bind_groups, <<lastCall.slot, lastCall.obj>>)
        /\ OnlyChanged("bind_groups")
    /\ lastCall.f = "draw" =>
        /\ ctx.draw_cmd = Some(DrawCmdOf(lastCall))
        /\ OnlyChanged("draw_cmd")

\* set_index_buffer was called with slot 1 on a context whose vertex buffer,
\* bind groups and pending draw were set and whose index buffer was another.
C22_Witness ==
    /\ lastCall.f = "set_index_buffer"
    /\ lastCall.slot = 1
    /\ prev.vertex_buffer # None
    /\ prev.bind_groups # <<>>
    /\ prev.draw_cmd # None
    /\ prev.index_buffer # None
    /\ prev.index_buffer # ctx.index_buffer

====
